---- MODULE Spec2Model ----
(***************************************************************************)
(* pafcheck: validation of the CIGAR string of a PAF record against the    *)
(* query and target windows it claims to align.                            *)
(*                                                                         *)
(* The module models validate_record (src/validator.rs) as a state machine *)
(* whose program counter walks through the function body, together with    *)
(* parse_cigar (src/cigar_parser.rs) and the window fetch of               *)
(* MultiFastaReader (src/fasta_reader.rs).                                 *)
(***************************************************************************)
EXTENDS Integers, Sequences, FiniteSets, TLC

VARIABLES
    query_fasta,    \* the query FASTA: [name, seq]
    target_fasta,   \* the target FASTA: [name, seq]
    record,         \* the PafRecord under validation
    error_mode,     \* the error_mode argument
    pc,             \* position inside validate_record
    query_seq,      \* local query_seq
    target_seq,     \* local target_seq
    cigar_ops,      \* local cigar_ops
    op_idx,         \* index of the operation being walked (0-based)
    i,              \* offset inside the current Match/Mismatch run
    q_idx,          \* query cursor
    t_idx,          \* target cursor
    errors,         \* HashMap<ErrorType, ErrorInfo>
    output,         \* the lines written to the output sink
    result,         \* the value returned by the call
    paf,            \* validate_paf: the lines of the PAF file
    line_number,    \* validate_paf: index of the line being read (0-based)
    main_pc,        \* validate_paf: position inside its body
    total_error_count,  \* validate_paf: local total_error_count
    error_type_counts,  \* validate_paf: HashMap<ErrorType, usize>
    stdout,         \* validate_paf: the lines printed to standard output
    paf_result,     \* validate_paf: the value it returns
    rc_original,    \* reverse_complement on its own: the window first passed
    rc_window,      \* reverse_complement on its own: the latest value
    rc_applied      \* reverse_complement on its own: number of applications

vars == <<query_fasta, target_fasta, record, error_mode, pc, query_seq,
          target_seq, cigar_ops, op_idx, i, q_idx, t_idx, errors, output,
          result, paf, line_number, main_pc, total_error_count,
          error_type_counts, stdout, paf_result, rc_original, rc_window,
          rc_applied>>

\* the state of validate_paf, which validate_record never touches
driver == <<paf, line_number, main_pc, total_error_count, error_type_counts,
            stdout, paf_result>>

\* the state of the stand-alone applications of reverse_complement
rc_vars == <<rc_original, rc_window, rc_applied>>

(***************************************************************************)
(* Bounds of the model.                                                    *)
(***************************************************************************)
\* longest window of a record, and largest sum of the run lengths of a
\* generated CIGAR string
MaxLen == 3
\* width in bits of the scaled-down u64 / usize word
U64Bits == 4
\* largest number of lines of a PAF file
MaxBatch == 2
\* longest string handed to parse_cigar on its own
MaxCigarLen == 4

U64Max == 2^U64Bits - 1

UsizeModulus == 2^U64Bits

(***************************************************************************)
(* Small helpers on sequences.                                             *)
(***************************************************************************)
RECURSIVE SeqsUpTo(_, _)
SeqsUpTo(S, n) ==
    IF n = 0 THEN {<<>>}
    ELSE LET shorter == SeqsUpTo(S, n - 1)
         IN  shorter \cup {Append(s, x) : s \in {t \in shorter : Len(t) = n - 1}, x \in S}

Range(s) == {s[k] : k \in DOMAIN s}

(***************************************************************************)
(* cigar_parser.rs                                                         *)
(***************************************************************************)
Digits == {"0", "1", "2", "3", "4", "5", "6", "7", "8", "9"}

is_ascii_digit(c) == c \in Digits

DigitValue(c) ==
    CASE c = "0" -> 0 [] c = "1" -> 1 [] c = "2" -> 2 [] c = "3" -> 3
      [] c = "4" -> 4 [] c = "5" -> 5 [] c = "6" -> 6 [] c = "7" -> 7
      [] c = "8" -> 8 [] c = "9" -> 9

\* num.parse::<u64>(): None on the empty string and on a value above u64::MAX
RECURSIVE ParseU64From(_, _, _)
ParseU64From(num, k, acc) ==
    IF k > Len(num) THEN [ok |-> TRUE, val |-> acc]
    ELSE LET next == acc * 10 + DigitValue(num[k])
         IN  IF next > U64Max THEN [ok |-> FALSE, val |-> 0]
             ELSE ParseU64From(num, k + 1, next)

ParseU64(num) ==
    IF num = <<>> THEN [ok |-> FALSE, val |-> 0]
    ELSE ParseU64From(num, 1, 0)

\* CigarOp with the letters I and D exchanged
CigarOp_InsDelSwapped(c, count) ==
    CASE c = "=" -> [op |-> "Match", len |-> count]
      [] c = "X" -> [op |-> "Mismatch", len |-> count]
      [] c = "I" -> [op |-> "Deletion", len |-> count]
      [] c = "D" -> [op |-> "Insertion", len |-> count]

CigarOp(c, count) ==
    CASE c = "=" -> [op |-> "Match", len |-> count]
      [] c = "X" -> [op |-> "Mismatch", len |-> count]
      [] c = "I" -> [op |-> "Insertion", len |-> count]
      [] c = "D" -> [op |-> "Deletion", len |-> count]

RECURSIVE ParseCigarFrom(_, _, _, _)
ParseCigarFrom(cigar, k, num, ops) ==
    IF k > Len(cigar) THEN [ok |-> TRUE, ops |-> ops, err |-> ""]
    ELSE LET c == cigar[k]
         IN  IF is_ascii_digit(c)
             THEN ParseCigarFrom(cigar, k + 1, Append(num, c), ops)
             ELSE LET count == ParseU64(num)
                  IN  IF ~count.ok
                      THEN [ok |-> FALSE, ops |-> <<>>,
                            err |-> "Failed to parse CIGAR operation count"]
                      ELSE IF c \in {"=", "X", "I", "D"}
                      THEN ParseCigarFrom(cigar, k + 1, <<>>,
                                          Append(ops, CigarOp(c, count.val)))
                      ELSE [ok |-> FALSE, ops |-> <<>>,
                            err |-> "Unknown CIGAR operation"]

parse_cigar(cigar) == ParseCigarFrom(cigar, 1, <<>>, <<>>)

(***************************************************************************)
(* fasta_reader.rs                                                         *)
(***************************************************************************)
\* fetch_seq_string(seq_name, start, end - 1) of the faidx reader: an unknown
\* name fails; the closed range [start, end - 1] is clipped to the sequence.
fetch_sequence(reader, seq_name, start, end) ==
    IF seq_name # reader.name THEN [ok |-> FALSE, seq |-> <<>>]
    ELSE LET len  == Len(reader.seq)
             last == end - 1
             beg0 == IF last < start THEN last ELSE start
             beg  == IF beg0 >= len THEN len ELSE beg0
             fin  == IF last >= len THEN len - 1 ELSE last
         IN  [ok |-> TRUE, seq |-> SubSeq(reader.seq, beg + 1, fin + 1)]

fetch_query_sequence(seq_name, start, end) ==
    fetch_sequence(query_fasta, seq_name, start, end)

fetch_target_sequence(seq_name, start, end) ==
    fetch_sequence(target_fasta, seq_name, start, end)

(***************************************************************************)
(* validator.rs                                                            *)
(***************************************************************************)
ErrorType == {"Mismatch", "LengthMismatch", "CigarMismatch"}

\* HashMap::new()
EmptyErrors == [t \in {} |-> 0]

NoResult == [kind |-> "Pending", error |-> "", errors |-> EmptyErrors]

Ok == [kind |-> "Ok", error |-> "", errors |-> EmptyErrors]

Err(msg) == [kind |-> "Err", error |-> msg, errors |-> EmptyErrors]

\* anyhow::anyhow!(ValidationError { errors })
ValidationError(errs) == [kind |-> "Err", error |-> "ValidationError", errors |-> errs]

\* e.downcast_ref::<ValidationError>()
IsValidationError(r) == r.kind = "Err" /\ r.error = "ValidationError"

\* char::to_uppercase on the sequence alphabet
UpperChar(c) ==
    CASE c = "a" -> "A" [] c = "c" -> "C" [] c = "g" -> "G" [] c = "t" -> "T"
      [] c = "n" -> "N" [] c = "r" -> "R" [] OTHER -> c

to_uppercase(seq) == [k \in 1..Len(seq) |-> UpperChar(seq[k])]

\* Complement leaving a base it does not know as it is
Complement_KeepsOtherBases(base) ==
    CASE base \in {"A", "a"} -> "T"
      [] base \in {"T", "t"} -> "A"
      [] base \in {"G", "g"} -> "C"
      [] base \in {"C", "c"} -> "G"
      [] base \in {"N", "n"} -> "N"
      [] OTHER -> base

\* validator.rs 183-190
Complement(base) ==
    CASE base \in {"A", "a"} -> "T"
      [] base \in {"T", "t"} -> "A"
      [] base \in {"G", "g"} -> "C"
      [] base \in {"C", "c"} -> "G"
      [] base \in {"N", "n"} -> "N"
      [] OTHER -> "N"

reverse_complement(seq) ==
    [k \in 1..Len(seq) |-> Complement(seq[Len(seq) + 1 - k])]

\* usize addition of a release build
UsizeAdd(a, b) == (a + b) % UsizeModulus

\* slice.get(from..to): None when the range is reversed or leaves the slice
SliceGet(seq, from, to) ==
    IF from > to \/ to > Len(seq) THEN [some |-> FALSE, slice |-> <<>>]
    ELSE [some |-> TRUE, slice |-> SubSeq(seq, from + 1, to)]

\* PositionMessage with the query coordinate printed for both sides
PositionMessage_QueryPosTwice(op, q, q_pos, t, t_pos) ==
    <<"CIGAR mismatch at operation", op, q, q_pos, t, q_pos>>

\* format!("CIGAR mismatch at operation {}: query char '{}' at pos {} vs target char '{}' at pos {}")
PositionMessage(op, q, q_pos, t, t_pos) ==
    <<"CIGAR mismatch at operation", op, q, q_pos, t, t_pos>>

\* format!("Query sequence length mismatch: CIGAR implies {}, actual length {}")
QueryLengthMessage(implied, actual) ==
    <<"Query sequence length mismatch", implied, actual>>

\* TargetLengthMessage with the text of the query side
TargetLengthMessage_QueryLabel(implied, actual) ==
    <<"Query sequence length mismatch", implied, actual>>

\* format!("Target sequence length mismatch: CIGAR implies {}, actual length {}")
TargetLengthMessage(implied, actual) ==
    <<"Target sequence length mismatch", implied, actual>>

\* RecordError whose and_modify leaves the count alone
RecordError_CountStaysOne(errs, error_type, error_message) ==
    IF error_type \in DOMAIN errs
    THEN errs
    ELSE [t \in DOMAIN errs \cup {error_type} |->
            IF t = error_type
            THEN [first_message |-> error_message, count |-> 1]
            ELSE errs[t]]

\* errors.entry(error_type).and_modify(|e| e.count += 1).or_insert(ErrorInfo { .. })
RecordError(errs, error_type, error_message) ==
    IF error_type \in DOMAIN errs
    THEN [errs EXCEPT ![error_type].count = @ + 1]
    ELSE [t \in DOMAIN errs \cup {error_type} |->
            IF t = error_type
            THEN [first_message |-> error_message, count |-> 1]
            ELSE errs[t]]

\* EntryLines without the "Total occurrences" line
EntryLines_WithoutTotal(errs, error_type) ==
    <<  <<error_type, errs[error_type].first_message>>  >>

\* the lines written for one entry of the map
EntryLines(errs, error_type) ==
    <<  <<error_type, errs[error_type].first_message>>  >>
    \o (IF errs[error_type].count > 1
        THEN <<  <<error_type, "Total occurrences", errs[error_type].count>>  >>
        ELSE <<>>)

RECURSIVE ReportLines(_, _)
ReportLines(errs, order) ==
    IF order = <<>> THEN <<>>
    ELSE EntryLines(errs, Head(order)) \o ReportLines(errs, Tail(order))

\* the orders in which a HashMap may iterate over its keys
IterationOrders(errs) ==
    {order \in [1..Cardinality(DOMAIN errs) -> DOMAIN errs] : Range(order) = DOMAIN errs}

\* IsReportMode comparing with a capitalised word
IsReportMode_Capitalised(mode) == mode = "Report"

\* IsReportMode comparing without regard to case
IsReportMode_IgnoresCase(mode) == mode \in {"report", "Report", "REPORT"}

\* validator.rs 160: error_mode == "report"
IsReportMode(mode) == mode = "report"

CurrentOp == cigar_ops[op_idx + 1]

(***************************************************************************)
(* The inputs of the model.                                                *)
(***************************************************************************)
QueryBases == {"A", "C"}

QueryWindows == SeqsUpTo(QueryBases, MaxLen) \ {<<>>}

\* the target windows are the two longest prefixes of AcAc...
TargetWindows ==
    {[k \in 1..n |-> IF k % 2 = 1 THEN "A" ELSE "c"] : n \in (MaxLen - 1)..MaxLen}

\* the bases stored in front of a window that does not start at 0
Pad(n) == [k \in 1..n |-> "N"]

\* query_start, target_start, strand and error_mode of the generated calls
Calls ==
    { [query_start |-> 0, target_start |-> 0, strand |-> "+", error_mode |-> "report"],
      [query_start |-> 1, target_start |-> 2, strand |-> "+", error_mode |-> "omit"],
      [query_start |-> 0, target_start |-> 1, strand |-> "-", error_mode |-> "report"],
      [query_start |-> 0, target_start |-> 1, strand |-> "-", error_mode |-> "REPORT"] }

OpKinds == {"Match", "Mismatch", "Insertion", "Deletion"}

\* the sequences of operations whose run lengths add up to at most n
RECURSIVE OpSeqs(_)
OpSeqs(n) ==
    {<<>>} \cup
    UNION {{<<[op |-> kind, len |-> len]>> \o rest : kind \in OpKinds, rest \in OpSeqs(n - len)} :
           len \in 1..n}

OpLetter(kind) ==
    CASE kind = "Match" -> "=" [] kind = "Mismatch" -> "X"
      [] kind = "Insertion" -> "I" [] kind = "Deletion" -> "D"

DigitChar(d) ==
    CASE d = 0 -> "0" [] d = 1 -> "1" [] d = 2 -> "2" [] d = 3 -> "3"
      [] d = 4 -> "4" [] d = 5 -> "5" [] d = 6 -> "6" [] d = 7 -> "7"
      [] d = 8 -> "8" [] d = 9 -> "9"

\* the decimal digits of a run length below 100
Decimal(n) ==
    IF n < 10 THEN <<DigitChar(n)>> ELSE <<DigitChar(n \div 10), DigitChar(n % 10)>>

\* the cg:Z: text of a sequence of operations
RECURSIVE CigarText(_)
CigarText(ops) ==
    IF ops = <<>> THEN <<>>
    ELSE Decimal(Head(ops).len) \o <<OpLetter(Head(ops).op)>> \o CigarText(Tail(ops))

\* strings that are not a sequence of (digits)(letter) pairs
MalformedCigars ==
    { <<"1", "=", "1">>, <<"2", "=", "1">>, <<"1">>, <<"1", "M">>, <<"=">>,
      <<"1", "=", "X">>, <<"9", "9", "=">> }

CigarStrings == {CigarText(ops) : ops \in OpSeqs(MaxLen)} \cup MalformedCigars

\* PafRecord
PafRecord(query_name, call, wq, target_name, wt, cigar) ==
    [ query_name   |-> query_name,
      query_start  |-> call.query_start,
      query_end    |-> call.query_start + Len(wq),
      strand       |-> call.strand,
      target_name  |-> target_name,
      target_start |-> call.target_start,
      target_end   |-> call.target_start + Len(wt),
      cigar        |-> cigar ]

\* the locals of validate_record before the call
InitLocals ==
    /\ pc = "fetch_query"
    /\ query_seq = <<>>
    /\ target_seq = <<>>
    /\ cigar_ops = <<>>
    /\ op_idx = 0
    /\ i = 0
    /\ q_idx = 0
    /\ t_idx = 0
    /\ errors = EmptyErrors
    /\ output = <<>>
    /\ result = NoResult

\* validate_record called on its own: validate_paf is not running
NoDriver ==
    /\ paf = <<>>
    /\ line_number = 0
    /\ main_pc = "idle"
    /\ total_error_count = 0
    /\ error_type_counts = EmptyErrors
    /\ stdout = <<>>
    /\ paf_result = NoResult

\* no stand-alone application of reverse_complement
NoReverseComplement ==
    /\ rc_original = <<>>
    /\ rc_window = <<>>
    /\ rc_applied = 0

\* records whose names are in the FASTA files
InitKnownNames ==
    \E wq \in QueryWindows, wt \in TargetWindows, call \in Calls, cigar \in CigarStrings :
        /\ query_fasta = [name |-> "query1", seq |-> Pad(call.query_start) \o wq]
        /\ target_fasta = [name |-> "target1", seq |-> Pad(call.target_start) \o wt]
        /\ record = PafRecord("query1", call, wq, "target1", wt, cigar)
        /\ error_mode = call.error_mode
        /\ InitLocals
        /\ NoDriver
        /\ NoReverseComplement

\* records that name a sequence missing from its FASTA file
InitUnknownName ==
    \E names \in {<<"absent", "target1">>, <<"query1", "absent">>},
       call \in Calls, cigar \in MalformedCigars \cup {<<"1", "=">>} :
        /\ query_fasta = [name |-> "query1", seq |-> Pad(call.query_start) \o <<"A">>]
        /\ target_fasta = [name |-> "target1", seq |-> Pad(call.target_start) \o <<"A">>]
        /\ record = PafRecord(names[1], call, <<"A">>, names[2], <<"A">>, cigar)
        /\ error_mode = call.error_mode
        /\ InitLocals
        /\ NoDriver
        /\ NoReverseComplement

\* records whose declared end on one side lies beyond the stored sequence
InitBeyondEnd ==
    \E side \in {"query", "target"}, call \in Calls, cigar \in CigarStrings :
        /\ query_fasta = [name |-> "query1", seq |-> Pad(call.query_start) \o <<"A">>]
        /\ target_fasta = [name |-> "target1", seq |-> Pad(call.target_start) \o <<"A", "c">>]
        /\ record = IF side = "query"
                    THEN [PafRecord("query1", call, <<"A">>, "target1", <<"A", "c">>, cigar)
                          EXCEPT !.query_end = @ + 1]
                    ELSE [PafRecord("query1", call, <<"A">>, "target1", <<"A", "c">>, cigar)
                          EXCEPT !.target_end = @ + 1]
        /\ error_mode = call.error_mode
        /\ InitLocals
        /\ NoDriver
        /\ NoReverseComplement

Init == InitKnownNames \/ InitUnknownName \/ InitBeyondEnd

(***************************************************************************)
(* validate_record, step by step.                                          *)
(***************************************************************************)
Return(r) ==
    /\ result' = r
    /\ pc' = "done"

\* FetchQuery going on with an empty window when the fetch fails
FetchQuery_ContinuesOnFailure ==
    /\ pc = "fetch_query"
    /\ LET r == fetch_query_sequence(record.query_name, record.query_start, record.query_end)
       IN  query_seq' = IF r.ok THEN r.seq ELSE <<>>
    /\ pc' = "fetch_target"
    /\ UNCHANGED <<query_fasta, target_fasta, record, error_mode, target_seq,
                   cigar_ops, op_idx, i, q_idx, t_idx, errors, output, result>>
    /\ UNCHANGED <<driver, rc_vars>>

\* validator.rs 50-55
FetchQuery ==
    /\ pc = "fetch_query"
    /\ LET r == fetch_query_sequence(record.query_name, record.query_start, record.query_end)
       IN  IF r.ok
           THEN /\ query_seq' = r.seq
                /\ pc' = "fetch_target"
                /\ UNCHANGED result
           ELSE /\ Return(Err("Failed to fetch query sequence"))
                /\ UNCHANGED query_seq
    /\ UNCHANGED <<query_fasta, target_fasta, record, error_mode, target_seq,
                   cigar_ops, op_idx, i, q_idx, t_idx, errors, output>>
    /\ UNCHANGED <<driver, rc_vars>>

\* validator.rs 56-61
FetchTarget ==
    /\ pc = "fetch_target"
    /\ LET r == fetch_target_sequence(record.target_name, record.target_start, record.target_end)
       IN  IF r.ok
           THEN /\ target_seq' = r.seq
                /\ pc' = "normalize"
                /\ UNCHANGED result
           ELSE /\ Return(Err("Failed to fetch target sequence"))
                /\ UNCHANGED target_seq
    /\ UNCHANGED <<query_fasta, target_fasta, record, error_mode, query_seq,
                   cigar_ops, op_idx, i, q_idx, t_idx, errors, output>>
    /\ UNCHANGED <<driver, rc_vars>>

\* validator.rs 63-70
Normalize ==
    /\ pc = "normalize"
    /\ query_seq' = to_uppercase(IF record.strand = "-"
                                 THEN reverse_complement(query_seq)
                                 ELSE query_seq)
    /\ target_seq' = to_uppercase(target_seq)
    /\ pc' = "parse"
    /\ UNCHANGED <<query_fasta, target_fasta, record, error_mode, cigar_ops,
                   op_idx, i, q_idx, t_idx, errors, output, result>>
    /\ UNCHANGED <<driver, rc_vars>>

\* validator.rs 72-76
ParseCigar ==
    /\ pc = "parse"
    /\ LET r == parse_cigar(record.cigar)
       IN  IF r.ok
           THEN /\ cigar_ops' = r.ops
                /\ q_idx' = 0
                /\ t_idx' = 0
                /\ errors' = EmptyErrors
                /\ pc' = "walk"
                /\ UNCHANGED result
           ELSE /\ Return(Err("Failed to parse CIGAR string"))
                /\ UNCHANGED <<cigar_ops, q_idx, t_idx, errors>>
    /\ UNCHANGED <<query_fasta, target_fasta, record, error_mode, query_seq,
                   target_seq, op_idx, i, output>>
    /\ UNCHANGED <<driver, rc_vars>>

\* BeginRun turning a run that leaves its window into a finding and going on
BeginRun_RecordsFinding ==
    /\ pc = "walk"
    /\ op_idx < Len(cigar_ops)
    /\ CurrentOp.op \in {"Match", "Mismatch"}
    /\ LET len     == CurrentOp.len
           q_slice == SliceGet(query_seq, q_idx, UsizeAdd(q_idx, len))
           t_slice == SliceGet(target_seq, t_idx, UsizeAdd(t_idx, len))
       IN  IF ~q_slice.some \/ ~t_slice.some
           THEN /\ errors' = RecordError(errors, "LengthMismatch",
                                         QueryLengthMessage(q_idx, Len(query_seq)))
                /\ op_idx' = op_idx + 1
                /\ UNCHANGED pc
           ELSE /\ pc' = "compare"
                /\ UNCHANGED <<errors, op_idx>>
    /\ i' = 0
    /\ UNCHANGED <<query_fasta, target_fasta, record, error_mode, query_seq,
                   target_seq, cigar_ops, q_idx, t_idx, output, result>>
    /\ UNCHANGED <<driver, rc_vars>>

\* validator.rs 80-87: the two slices of a Match or Mismatch run
BeginRun ==
    /\ pc = "walk"
    /\ op_idx < Len(cigar_ops)
    /\ CurrentOp.op \in {"Match", "Mismatch"}
    /\ LET len     == CurrentOp.len
           q_slice == SliceGet(query_seq, q_idx, UsizeAdd(q_idx, len))
           t_slice == SliceGet(target_seq, t_idx, UsizeAdd(t_idx, len))
       IN  IF ~q_slice.some
           THEN Return(Err("Query sequence index out of range"))
           ELSE IF ~t_slice.some
           THEN Return(Err("Target sequence index out of range"))
           ELSE /\ pc' = "compare"
                /\ UNCHANGED result
    /\ i' = 0
    /\ UNCHANGED <<query_fasta, target_fasta, record, error_mode, query_seq,
                   target_seq, cigar_ops, op_idx, q_idx, t_idx, errors, output>>
    /\ UNCHANGED <<driver, rc_vars>>

\* validator.rs 89-115: one iteration of the comparison loop
CompareBase ==
    /\ pc = "compare"
    /\ i < CurrentOp.len
    /\ LET len     == CurrentOp.len
           q_slice == SliceGet(query_seq, q_idx, UsizeAdd(q_idx, len)).slice
           t_slice == SliceGet(target_seq, t_idx, UsizeAdd(t_idx, len)).slice
           q       == q_slice[i + 1]
           t       == t_slice[i + 1]
           is_match       == q = t
           expected_match == CurrentOp.op = "Match"
           error_type     == IF expected_match THEN "Mismatch" ELSE "CigarMismatch"
           error_message  ==
               PositionMessage(op_idx, q,
                               UsizeAdd(UsizeAdd(record.query_start, q_idx), i), t,
                               UsizeAdd(UsizeAdd(record.target_start, t_idx), i))
       IN  errors' = IF is_match # expected_match
                     THEN RecordError(errors, error_type, error_message)
                     ELSE errors
    /\ i' = i + 1
    /\ UNCHANGED <<query_fasta, target_fasta, record, error_mode, pc, query_seq,
                   target_seq, cigar_ops, op_idx, q_idx, t_idx, output, result>>
    /\ UNCHANGED <<driver, rc_vars>>

\* validator.rs 116-117
EndRun ==
    /\ pc = "compare"
    /\ i = CurrentOp.len
    /\ q_idx' = UsizeAdd(q_idx, CurrentOp.len)
    /\ t_idx' = UsizeAdd(t_idx, CurrentOp.len)
    /\ op_idx' = op_idx + 1
    /\ i' = 0
    /\ pc' = "walk"
    /\ UNCHANGED <<query_fasta, target_fasta, record, error_mode, query_seq,
                   target_seq, cigar_ops, errors, output, result>>
    /\ UNCHANGED <<driver, rc_vars>>

\* Insertion advancing the two cursors, as a Match run does
Insertion_AdvancesBothCursors ==
    /\ pc = "walk"
    /\ op_idx < Len(cigar_ops)
    /\ CurrentOp.op = "Insertion"
    /\ q_idx' = UsizeAdd(q_idx, CurrentOp.len)
    /\ t_idx' = UsizeAdd(t_idx, CurrentOp.len)
    /\ op_idx' = op_idx + 1
    /\ UNCHANGED <<query_fasta, target_fasta, record, error_mode, pc, query_seq,
                   target_seq, cigar_ops, i, errors, output, result>>
    /\ UNCHANGED <<driver, rc_vars>>

\* validator.rs 119-121
Insertion ==
    /\ pc = "walk"
    /\ op_idx < Len(cigar_ops)
    /\ CurrentOp.op = "Insertion"
    /\ q_idx' = UsizeAdd(q_idx, CurrentOp.len)
    /\ op_idx' = op_idx + 1
    /\ UNCHANGED <<query_fasta, target_fasta, record, error_mode, pc, query_seq,
                   target_seq, cigar_ops, i, t_idx, errors, output, result>>
    /\ UNCHANGED <<driver, rc_vars>>

\* validator.rs 122-124
Deletion ==
    /\ pc = "walk"
    /\ op_idx < Len(cigar_ops)
    /\ CurrentOp.op = "Deletion"
    /\ t_idx' = UsizeAdd(t_idx, CurrentOp.len)
    /\ op_idx' = op_idx + 1
    /\ UNCHANGED <<query_fasta, target_fasta, record, error_mode, pc, query_seq,
                   target_seq, cigar_ops, i, q_idx, errors, output, result>>
    /\ UNCHANGED <<driver, rc_vars>>

\* validator.rs 128-142
CheckQueryLength ==
    /\ pc = "walk"
    /\ op_idx = Len(cigar_ops)
    /\ errors' = IF q_idx # Len(query_seq)
                 THEN RecordError(errors, "LengthMismatch",
                                  QueryLengthMessage(q_idx, Len(query_seq)))
                 ELSE errors
    /\ pc' = "length_target"
    /\ UNCHANGED <<query_fasta, target_fasta, record, error_mode, query_seq,
                   target_seq, cigar_ops, op_idx, i, q_idx, t_idx, output, result>>
    /\ UNCHANGED <<driver, rc_vars>>

\* validator.rs 143-157
CheckTargetLength ==
    /\ pc = "length_target"
    /\ errors' = IF t_idx # Len(target_seq)
                 THEN RecordError(errors, "LengthMismatch",
                                  TargetLengthMessage(t_idx, Len(target_seq)))
                 ELSE errors
    /\ pc' = "report"
    /\ UNCHANGED <<query_fasta, target_fasta, record, error_mode, query_seq,
                   target_seq, cigar_ops, op_idx, i, q_idx, t_idx, output, result>>
    /\ UNCHANGED <<driver, rc_vars>>

\* Report writing the lines in every mode before it returns
Report_WritesInEveryMode ==
    /\ pc = "report"
    /\ IF errors # EmptyErrors
       THEN /\ \E order \in IterationOrders(errors) :
                   output' = output \o ReportLines(errors, order)
            /\ IF IsReportMode(error_mode)
               THEN Return(Ok)
               ELSE Return(ValidationError(errors))
       ELSE /\ Return(Ok)
            /\ UNCHANGED output
    /\ UNCHANGED <<query_fasta, target_fasta, record, error_mode, query_seq,
                   target_seq, cigar_ops, op_idx, i, q_idx, t_idx, errors>>
    /\ UNCHANGED <<driver, rc_vars>>

\* validator.rs 159-177
Report ==
    /\ pc = "report"
    /\ IF errors # EmptyErrors
       THEN IF IsReportMode(error_mode)
            THEN /\ \E order \in IterationOrders(errors) :
                        output' = output \o ReportLines(errors, order)
                 /\ Return(Ok)
            ELSE /\ Return(ValidationError(errors))
                 /\ UNCHANGED output
       ELSE /\ Return(Ok)
            /\ UNCHANGED output
    /\ UNCHANGED <<query_fasta, target_fasta, record, error_mode, query_seq,
                   target_seq, cigar_ops, op_idx, i, q_idx, t_idx, errors>>
    /\ UNCHANGED <<driver, rc_vars>>

Next ==
    \/ FetchQuery
    \/ FetchTarget
    \/ Normalize
    \/ ParseCigar
    \/ BeginRun
    \/ CompareBase
    \/ EndRun
    \/ Insertion
    \/ Deletion
    \/ CheckQueryLength
    \/ CheckTargetLength
    \/ Report

Spec == Init /\ [][Next]_vars

(***************************************************************************)
(* validate_paf (main.rs): the loop over the lines of a PAF file, with     *)
(* validate_record run step by step on the record of each line.            *)
(***************************************************************************)
\* a line of the PAF file: the number of its tab-separated fields and the
\* fields that from_line keeps
PafLine(nfields, query_name, query_end, target_name, target_end, cigar) ==
    [ nfields      |-> nfields,
      query_name   |-> query_name,
      query_start  |-> 0,
      query_end    |-> query_end,
      strand       |-> "+",
      target_name  |-> target_name,
      target_start |-> 0,
      target_end   |-> target_end,
      cigar        |-> cigar ]

\* paf_parser.rs 18-44
from_line(line) ==
    IF line.nfields < 12
    THEN [ok |-> FALSE, record |-> <<>>]
    ELSE [ok |-> TRUE,
          record |-> [ query_name   |-> line.query_name,
                       query_start  |-> line.query_start,
                       query_end    |-> line.query_end,
                       strand       |-> line.strand,
                       target_name  |-> line.target_name,
                       target_start |-> line.target_start,
                       target_end   |-> line.target_end,
                       cigar        |-> line.cigar ]]

\* the sequences of the two FASTA files of a batch
BatchQuery == <<"A", "C", "A">>

BatchTarget == <<"A", "c", "C">>

\* the lines a PAF file is made of
PafLines ==
    { PafLine(12, "query1", 2, "target1", 2, <<"2", "=">>),
      PafLine(12, "query1", 3, "target1", 3, <<"3", "=">>),
      PafLine(12, "query1", 3, "target1", 3, <<"1", "X", "2", "=">>),
      PafLine(12, "query1", 3, "target1", 3, <<"3", "X">>),
      PafLine(12, "query1", 3, "target1", 2, <<"2", "=">>),
      PafLine(12, "query1", 2, "target1", 3, <<"1", "=", "1", "D", "1", "=">>),
      PafLine(12, "query1", 3, "target1", 2, <<"2", "=", "1", "I">>),
      PafLine(12, "query1", 2, "target1", 2, <<"2", "M">>),
      PafLine(12, "absent", 2, "target1", 2, <<"2", "=">>),
      PafLine(12, "query1", 1, "target1", 2, <<"2", "=">>),
      PafLine(11, "query1", 2, "target1", 2, <<"2", "=">>) }

ErrorModes == {"report", "omit"}

InitPaf ==
    \E lines \in SeqsUpTo(PafLines, MaxBatch), mode \in ErrorModes :
        /\ query_fasta = [name |-> "query1", seq |-> BatchQuery]
        /\ target_fasta = [name |-> "target1", seq |-> BatchTarget]
        /\ error_mode = mode
        /\ paf = lines
        /\ line_number = 0
        /\ main_pc = "read"
        /\ total_error_count = 0
        /\ error_type_counts = EmptyErrors
        /\ stdout = << <<"Using query FASTA">>, <<"Using target FASTA">> >>
        /\ paf_result = NoResult
        /\ record = <<>>
        /\ pc = "done"
        /\ query_seq = <<>>
        /\ target_seq = <<>>
        /\ cigar_ops = <<>>
        /\ op_idx = 0
        /\ i = 0
        /\ q_idx = 0
        /\ t_idx = 0
        /\ errors = EmptyErrors
        /\ output = <<>>
        /\ result = NoResult
        /\ NoReverseComplement

\* main.rs 83-90: the next line becomes a record and validate_record is called
\* on it with a fresh output buffer
ReadLine ==
    /\ main_pc = "read"
    /\ line_number < Len(paf)
    /\ LET r == from_line(paf[line_number + 1])
       IN  IF r.ok
           THEN /\ record' = r.record
                /\ main_pc' = "validate"
                /\ pc' = "fetch_query"
                /\ UNCHANGED paf_result
           ELSE /\ paf_result' = Err("Failed to parse PAF record")
                /\ main_pc' = "finished"
                /\ UNCHANGED <<record, pc>>
    /\ query_seq' = <<>>
    /\ target_seq' = <<>>
    /\ cigar_ops' = <<>>
    /\ op_idx' = 0
    /\ i' = 0
    /\ q_idx' = 0
    /\ t_idx' = 0
    /\ errors' = EmptyErrors
    /\ output' = <<>>
    /\ result' = NoResult
    /\ UNCHANGED <<query_fasta, target_fasta, error_mode, paf, line_number,
                   total_error_count, error_type_counts, stdout>>
    /\ UNCHANGED rc_vars

\* main.rs 96-105: the lines printed for one entry of a ValidationError
PrintedEntry(errs, error_type, line) ==
    <<  <<"[pafcheck] Error at line", line, error_type, errs[error_type].first_message>>  >>
    \o (IF errs[error_type].count > 1
        THEN <<  <<"[pafcheck] Total occurrences", error_type, errs[error_type].count>>  >>
        ELSE <<>>)

RECURSIVE PrintedEntries(_, _, _)
PrintedEntries(errs, order, line) ==
    IF order = <<>> THEN <<>>
    ELSE PrintedEntry(errs, Head(order), line) \o PrintedEntries(errs, Tail(order), line)

\* main.rs 93-95: the sum of the counts of the entries
RECURSIVE CountSum(_, _)
CountSum(errs, order) ==
    IF order = <<>> THEN 0
    ELSE errs[Head(order)].count + CountSum(errs, Tail(order))

\* main.rs 94: *error_type_counts.entry(error_type).or_insert(0) += count
AddCounts(counts, errs) ==
    [t \in DOMAIN counts \cup DOMAIN errs |->
        (IF t \in DOMAIN counts THEN counts[t] ELSE 0)
        + (IF t \in DOMAIN errs THEN errs[t].count ELSE 0)]

\* main.rs 90-110: what the loop does with the value validate_record returned
HandleResult ==
    /\ main_pc = "validate"
    /\ pc = "done"
    /\ IF result.kind = "Err"
       THEN IF IsValidationError(result)
            THEN \E order \in IterationOrders(result.errors) :
                    /\ error_type_counts' = AddCounts(error_type_counts, result.errors)
                    /\ total_error_count' = total_error_count + CountSum(result.errors, order)
                    /\ stdout' = stdout \o PrintedEntries(result.errors, order, line_number + 1)
            ELSE /\ total_error_count' = total_error_count + 1
                 /\ stdout' = Append(stdout, <<"[pafcheck] Error at line", line_number + 1,
                                               result.error>>)
                 /\ UNCHANGED error_type_counts
       ELSE UNCHANGED <<total_error_count, error_type_counts, stdout>>
    /\ line_number' = line_number + 1
    /\ main_pc' = "read"
    /\ UNCHANGED <<query_fasta, target_fasta, record, error_mode, pc, query_seq,
                   target_seq, cigar_ops, op_idx, i, q_idx, t_idx, errors, output,
                   result, paf, paf_result>>
    /\ UNCHANGED rc_vars

\* main.rs 115-117: one summary line per finding type
RECURSIVE SummaryLines(_, _)
SummaryLines(counts, order) ==
    IF order = <<>> THEN <<>>
    ELSE <<  <<"[pafcheck]   -", Head(order), counts[Head(order)]>>  >>
         \o SummaryLines(counts, Tail(order))

NoErrorsFound == <<"[pafcheck] PAF validation completed successfully. No errors found.">>

\* main.rs 113-123
Summary ==
    /\ main_pc = "read"
    /\ line_number = Len(paf)
    /\ IF total_error_count > 0
       THEN /\ \E order \in IterationOrders(error_type_counts) :
                   stdout' = stdout
                             \o <<  <<"[pafcheck] PAF validation completed with errors:">>  >>
                             \o SummaryLines(error_type_counts, order)
                             \o <<  <<"[pafcheck] Total errors:", total_error_count>>  >>
            /\ paf_result' = Err("PAF validation failed")
       ELSE /\ stdout' = Append(stdout, NoErrorsFound)
            /\ paf_result' = Ok
    /\ main_pc' = "finished"
    /\ UNCHANGED <<query_fasta, target_fasta, record, error_mode, pc, query_seq,
                   target_seq, cigar_ops, op_idx, i, q_idx, t_idx, errors, output,
                   result, paf, line_number, total_error_count, error_type_counts>>
    /\ UNCHANGED rc_vars

NextPaf ==
    \/ ReadLine
    \/ HandleResult
    \/ Summary
    \/ Next

SpecPaf == InitPaf /\ [][NextPaf]_vars

(***************************************************************************)
(* validate_record on run lengths up to the largest count parse_cigar      *)
(* accepts.  A cursor addition that leaves the word wraps in a release     *)
(* build (UsizeAdd in the actions above) and panics in a debug build       *)
(* (OverflowPanic); both outcomes are steps of this specification.         *)
(***************************************************************************)
\* the panic of an arithmetic overflow in a build with overflow checks
Panic == [kind |-> "Panic", error |-> "attempt to add with overflow", errors |-> EmptyErrors]

\* validator.rs 83, 86, 116-117, 120, 123 with overflow checks enabled
OverflowPanic ==
    /\ pc = "walk"
    /\ op_idx < Len(cigar_ops)
    /\ LET len == CurrentOp.len
       IN  CASE CurrentOp.op \in {"Match", "Mismatch"} ->
                  \/ q_idx + len >= UsizeModulus
                  \/ /\ SliceGet(query_seq, q_idx, q_idx + len).some
                     /\ t_idx + len >= UsizeModulus
             [] CurrentOp.op = "Insertion" -> q_idx + len >= UsizeModulus
             [] CurrentOp.op = "Deletion"  -> t_idx + len >= UsizeModulus
    /\ Return(Panic)
    /\ UNCHANGED <<query_fasta, target_fasta, record, error_mode, query_seq,
                   target_seq, cigar_ops, op_idx, i, q_idx, t_idx, errors, output>>
    /\ UNCHANGED <<driver, rc_vars>>

\* run lengths at both ends of the range of a count
WideCounts == {1, U64Max - 1, U64Max}

WideOps == {[op |-> kind, len |-> len] : kind \in OpKinds, len \in WideCounts}

WideCigars == {CigarText(ops) : ops \in SeqsUpTo(WideOps, 2)}

InitWide ==
    \E call \in Calls, cigar \in WideCigars :
        /\ query_fasta = [name |-> "query1", seq |-> Pad(call.query_start) \o <<"A">>]
        /\ target_fasta = [name |-> "target1", seq |-> Pad(call.target_start) \o <<"A", "c">>]
        /\ record = PafRecord("query1", call, <<"A">>, "target1", <<"A", "c">>, cigar)
        /\ error_mode = call.error_mode
        /\ InitLocals
        /\ NoDriver
        /\ NoReverseComplement

NextWide == Next \/ OverflowPanic

SpecWide == InitWide /\ [][NextWide]_vars

(***************************************************************************)
(* reverse_complement on its own, applied once and once more to every      *)
(* window over the sequence alphabet, next to the first steps of           *)
(* validate_record on a record whose two windows are that window.          *)
(***************************************************************************)
\* bases of either case, N and an ambiguity code
SequenceAlphabet == {"A", "c", "G", "t", "N", "n", "R", "r"}

Strands == {"+", "-"}

InitRC ==
    \E w \in SeqsUpTo(SequenceAlphabet, MaxLen) \ {<<>>}, strand \in Strands :
        /\ query_fasta = [name |-> "query1", seq |-> w]
        /\ target_fasta = [name |-> "target1", seq |-> w]
        /\ record = PafRecord("query1",
                              [query_start |-> 0, target_start |-> 0, strand |-> strand],
                              w, "target1", w, <<>>)
        /\ error_mode = "report"
        /\ InitLocals
        /\ NoDriver
        /\ rc_original = w
        /\ rc_window = w
        /\ rc_applied = 0

\* validator.rs 180-192: one more application to the latest value
ReverseComplementCall ==
    /\ rc_applied < 2
    /\ rc_window' = reverse_complement(rc_window)
    /\ rc_applied' = rc_applied + 1
    /\ UNCHANGED <<query_fasta, target_fasta, record, error_mode, pc, query_seq,
                   target_seq, cigar_ops, op_idx, i, q_idx, t_idx, errors, output,
                   result, rc_original>>
    /\ UNCHANGED driver

NextRC ==
    \/ ReverseComplementCall
    \/ FetchQuery
    \/ FetchTarget
    \/ Normalize

SpecRC == InitRC /\ [][NextRC]_vars

(***************************************************************************)
(* parse_cigar on its own: every string over a small alphabet.             *)
(***************************************************************************)
ParseAlphabet == {"0", "1", "9", "=", "X", "I", "D", "M"}

InitParse ==
    \E cigar \in SeqsUpTo(ParseAlphabet, MaxCigarLen) :
        /\ query_fasta = [name |-> "query1", seq |-> <<"A">>]
        /\ target_fasta = [name |-> "target1", seq |-> <<"A">>]
        /\ record = PafRecord("query1", [query_start |-> 0, target_start |-> 0, strand |-> "+"],
                              <<"A">>, "target1", <<"A">>, cigar)
        /\ error_mode = "omit"
        /\ pc = "parse"
        /\ query_seq = <<"A">>
        /\ target_seq = <<"A">>
        /\ cigar_ops = <<>>
        /\ op_idx = 0
        /\ i = 0
        /\ q_idx = 0
        /\ t_idx = 0
        /\ errors = EmptyErrors
        /\ output = <<>>
        /\ result = NoResult
        /\ NoDriver
        /\ NoReverseComplement

NextParse == ParseCigar

SpecParse == InitParse /\ [][NextParse]_vars

(***************************************************************************)
(* The grammar of the operator string, stated on positions.                *)
(***************************************************************************)
OperatorLetters == {"=", "X", "I", "D"}

\* the positions of the characters that are not digits
LetterPositions(s) == {k \in DOMAIN s : s[k] \notin Digits}

\* the first position of the digit run that ends right before position k
RunStart(s, k) ==
    LET before == {j \in LetterPositions(s) : j < k}
    IN  IF before = {} THEN 1
        ELSE 1 + (CHOOSE j \in before : \A m \in before : m <= j)

\* the decimal value of s[a..b]
RECURSIVE DecimalValue(_, _, _)
DecimalValue(s, a, b) ==
    IF a > b THEN 0 ELSE 10 * DecimalValue(s, a, b - 1) + DigitValue(s[b])

HasForeignLetter(s) == \E k \in LetterPositions(s) : s[k] \notin OperatorLetters

HasLetterWithoutCount(s) == \E k \in LetterPositions(s) : RunStart(s, k) = k

HasCountAboveU64(s) ==
    \E k \in LetterPositions(s) : DecimalValue(s, RunStart(s, k), k - 1) > U64Max

EndsWithDigit(s) == s # <<>> /\ s[Len(s)] \in Digits

\* the position of the n-th letter of s
NthLetter(s, n) ==
    CHOOSE k \in LetterPositions(s) :
        Cardinality({j \in LetterPositions(s) : j <= k}) = n

KindOfLetter(c) ==
    CASE c = "=" -> "Match" [] c = "X" -> "Mismatch"
      [] c = "I" -> "Insertion" [] c = "D" -> "Deletion"

\* the operations a string of (digits)(letter) pairs denotes
DenotedOps(s) ==
    [n \in 1..Cardinality(LetterPositions(s)) |->
        LET k == NthLetter(s, n)
        IN  [op |-> KindOfLetter(s[k]), len |-> DecimalValue(s, RunStart(s, k), k - 1)]]

\* C9: parse_cigar fails on every string with a non-digit outside {=,X,I,D},
\* with a letter that no digit precedes, or with a count above u64::MAX; on
\* every other string made of (digits)(letter) pairs it returns the denoted
\* operations in left-to-right order; the empty string gives no operation
\* and no error.
C9_ParseCigarGrammar ==
    pc # "parse" =>
        LET s == record.cigar
        IN  IF HasForeignLetter(s) \/ HasLetterWithoutCount(s) \/ HasCountAboveU64(s)
            THEN pc = "done" /\ result = Err("Failed to parse CIGAR string")
            ELSE ~EndsWithDigit(s) =>
                    /\ pc = "walk"
                    /\ result = NoResult
                    /\ cigar_ops = DenotedOps(s)

\* a string of two pairs was parsed into two different operations
C9_Witness ==
    /\ pc = "walk"
    /\ record.cigar = <<"1", "=", "9", "I">>
    /\ Len(cigar_ops) = 2
    /\ cigar_ops[1].op = "Match"
    /\ cigar_ops[2].op = "Insertion"
    /\ cigar_ops[2].len = 9

\* C10: an operator string that ends with digits that no letter follows is a
\* grammar error: the record fails and none of its operations is walked.
C10_TruncatedCountRejected ==
    (EndsWithDigit(record.cigar) /\ pc \notin {"fetch_query", "fetch_target", "normalize", "parse"})
        => (pc = "done" /\ result.kind = "Err" /\ ~IsValidationError(result))

(***************************************************************************)
(* The findings of a record, stated on the windows and the operations      *)
(* instead of on the walk.                                                 *)
(***************************************************************************)
QueryConsuming == {"Match", "Mismatch", "Insertion"}

TargetConsuming == {"Match", "Mismatch", "Deletion"}

\* the sum of the run lengths of the first n operations whose kind is in kinds
RECURSIVE RunTotal(_, _, _)
RunTotal(ops, kinds, n) ==
    IF n = 0 THEN 0
    ELSE RunTotal(ops, kinds, n - 1) + (IF ops[n].op \in kinds THEN ops[n].len ELSE 0)

\* where operation k (1-based) starts in each window
QueryOffset(k) == RunTotal(cigar_ops, QueryConsuming, k - 1)

TargetOffset(k) == RunTotal(cigar_ops, TargetConsuming, k - 1)

QueryTotal == RunTotal(cigar_ops, QueryConsuming, Len(cigar_ops))

TargetTotal == RunTotal(cigar_ops, TargetConsuming, Len(cigar_ops))

CompareRuns == {k \in DOMAIN cigar_ops : cigar_ops[k].op \in {"Match", "Mismatch"}}

RunsInBounds ==
    \A k \in CompareRuns :
        /\ QueryOffset(k) + cigar_ops[k].len <= Len(query_seq)
        /\ TargetOffset(k) + cigar_ops[k].len <= Len(target_seq)

NamesKnown ==
    /\ record.query_name = query_fasta.name
    /\ record.target_name = target_fasta.name

CigarAccepted ==
    /\ ~HasForeignLetter(record.cigar)
    /\ ~HasLetterWithoutCount(record.cigar)
    /\ ~HasCountAboveU64(record.cigar)

\* both fetches and the parse succeed and no run leaves its window
WalkCompletes == NamesKnown /\ CigarAccepted /\ RunsInBounds

\* the walk has consumed the last operation and no length check has run yet
WalkEnded == pc = "walk" /\ op_idx = Len(cigar_ops)

\* the compared positions <<operation, offset>>
Positions ==
    UNION {{<<k, off>> : off \in 0..(cigar_ops[k].len - 1)} : k \in CompareRuns}

QueryByte(d) == query_seq[QueryOffset(d[1]) + d[2] + 1]

TargetByte(d) == target_seq[TargetOffset(d[1]) + d[2] + 1]

Disagreements ==
    {d \in Positions : (cigar_ops[d[1]].op = "Match") # (QueryByte(d) = TargetByte(d))}

KindOf(d) == IF cigar_ops[d[1]].op = "Match" THEN "Mismatch" ELSE "CigarMismatch"

MessageOf(d) ==
    <<"CIGAR mismatch at operation", d[1] - 1,
      QueryByte(d), record.query_start + QueryOffset(d[1]) + d[2],
      TargetByte(d), record.target_start + TargetOffset(d[1]) + d[2]>>

Earlier(d, e) == d[1] < e[1] \/ (d[1] = e[1] /\ d[2] < e[2])

\* the disagreeing positions in traversal order
PositionFindings ==
    LET D == Disagreements
    IN  [n \in 1..Cardinality(D) |->
            LET d == CHOOSE e \in D : Cardinality({f \in D : Earlier(f, e)}) = n - 1
            IN  [type |-> KindOf(d), message |-> MessageOf(d)]]

LengthFindings ==
    (IF QueryTotal # Len(query_seq)
     THEN << [type |-> "LengthMismatch",
              message |-> <<"Query sequence length mismatch", QueryTotal, Len(query_seq)>>] >>
     ELSE <<>>)
    \o (IF TargetTotal # Len(target_seq)
        THEN << [type |-> "LengthMismatch",
                 message |-> <<"Target sequence length mismatch", TargetTotal, Len(target_seq)>>] >>
        ELSE <<>>)

\* every finding of the record: positions in traversal order, length checks last
Findings == PositionFindings \o LengthFindings

\* the findings of F that have type T, and the types that occur in F
OfType(F, T) == SelectSeq(F, LAMBDA f : f.type = T)

TypesIn(F) == {F[n].type : n \in DOMAIN F}

C2_OtherModesFailWithFindings ==
    (pc = "done" /\ WalkCompletes) =>
        LET F == Findings
        IN  IF F = <<>> THEN result = Ok
            ELSE error_mode # "report" =>
                    /\ IsValidationError(result)
                    /\ DOMAIN result.errors = TypesIn(F)
                    /\ \A T \in TypesIn(F) :
                          /\ result.errors[T].count = Len(OfType(F, T))
                          /\ result.errors[T].first_message = OfType(F, T)[1].message

\* a mode that is neither "report" nor "omit" failed with the findings
C2_Witness ==
    /\ pc = "done"
    /\ error_mode = "REPORT"
    /\ WalkCompletes
    /\ IsValidationError(result)
    /\ Len(Findings) >= 2

\* C3 as stated: in a mode other than "report" a record with findings has the
\* lines of report mode on the sink when the failure is returned.
C3_OmitModeWritesReportLines ==
    (pc = "done" /\ error_mode # "report" /\ IsValidationError(result)) =>
        output \in {ReportLines(errors, order) : order \in IterationOrders(errors)}

\* C3 amended: in a mode other than "report" nothing is ever written to the
\* sink; the findings leave the call in the returned ValidationError only.
C3_OmitModeWritesNothing ==
    error_mode # "report" =>
        /\ output = <<>>
        /\ (pc = "done" /\ WalkCompletes /\ Findings # <<>>) => result.errors = errors

\* an omit-mode call failed with findings and an empty sink
C3_Witness ==
    /\ pc = "done"
    /\ error_mode = "omit"
    /\ IsValidationError(result)
    /\ Len(Findings) >= 2
    /\ output = <<>>

\* C4 as stated: report mode writes one line per finding, in traversal order.
C4_OneLinePerFinding ==
    (pc = "done" /\ error_mode = "report" /\ WalkCompletes) =>
        LET F == Findings
        IN  output = [n \in DOMAIN F |-> <<F[n].type, F[n].message>>]

\* the lines of one finding type: its first message, then the total if above 1
TypeBlock(F, T) ==
    LET same == OfType(F, T)
    IN  <<  <<T, same[1].message>>  >>
        \o (IF Len(same) > 1 THEN <<  <<T, "Total occurrences", Len(same)>>  >> ELSE <<>>)

RECURSIVE TypeBlocks(_, _)
TypeBlocks(F, order) ==
    IF order = <<>> THEN <<>>
    ELSE TypeBlock(F, Head(order)) \o TypeBlocks(F, Tail(order))

\* C4 amended: report mode writes, for every finding type that occurred, the
\* message of the first finding of that type and, when the type has more than
\* one finding, a "Total occurrences" line right after it; the types come in
\* some order that the traversal does not determine.
C4_OneBlockPerType ==
    (pc = "done" /\ error_mode = "report" /\ WalkCompletes) =>
        LET F     == Findings
            types == TypesIn(F)
        IN  \E order \in [1..Cardinality(types) -> types] :
                /\ Range(order) = types
                /\ output = TypeBlocks(F, order)

\* three findings of one type gave two lines
C4_Witness ==
    /\ pc = "done"
    /\ error_mode = "report"
    /\ WalkCompletes
    /\ Len(Findings) >= 3
    /\ Len(output) = 2

\* C5 as stated: after the walk the collection has one entry per disagreeing
\* position.
C5_OneEntryPerPosition ==
    WalkEnded => Cardinality(DOMAIN errors) = Cardinality(Disagreements)

\* C5 amended: after the walk the collection has one entry per kind of
\* disagreement that occurred, whose count is the number of disagreeing
\* positions of that kind and whose message is that of the first of them.
C5_OneEntryPerKind ==
    WalkEnded =>
        LET D == Disagreements
        IN  /\ DOMAIN errors = {KindOf(d) : d \in D}
            /\ \A T \in DOMAIN errors :
                  /\ errors[T].count = Cardinality({d \in D : KindOf(d) = T})
                  /\ \E d \in D :
                        /\ KindOf(d) = T
                        /\ errors[T].first_message = MessageOf(d)
                        /\ \A e \in D : KindOf(e) = T => ~Earlier(e, d)

\* two positions of one kind were merged next to an entry of the other kind
C5_Witness ==
    /\ WalkEnded
    /\ DOMAIN errors = {"Mismatch", "CigarMismatch"}
    /\ errors["Mismatch"].count = 2
    /\ Cardinality(Disagreements) = 3

\* C6 as stated: every disagreeing position has a recorded finding of its
\* type that names its operation index and its two coordinates.
C6_EveryDisagreementNamed ==
    WalkEnded =>
        \A d \in Disagreements :
            /\ KindOf(d) \in DOMAIN errors
            /\ errors[KindOf(d)].first_message = MessageOf(d)

\* C6 amended: at offset i of a Match or Mismatch run the walk counts one
\* finding, Mismatch for '=' on different bytes and CigarMismatch for 'X' on
\* equal bytes, and nothing otherwise; the first finding of a type stores the
\* message with the operation index and the coordinates, a later one of that
\* type only raises the count and leaves the stored message as it is.
C6_CompareStep ==
    [][ (pc = "compare" /\ i < CurrentOp.len) =>
            LET q    == query_seq[q_idx + i + 1]
                t    == target_seq[t_idx + i + 1]
                kind == IF CurrentOp.op = "Match" THEN "Mismatch" ELSE "CigarMismatch"
                msg  == <<"CIGAR mismatch at operation", op_idx,
                          q, record.query_start + q_idx + i,
                          t, record.target_start + t_idx + i>>
            IN  IF (CurrentOp.op = "Match") # (q = t)
                THEN /\ DOMAIN errors' = DOMAIN errors \cup {kind}
                     /\ \A T \in DOMAIN errors \ {kind} : errors'[T] = errors[T]
                     /\ IF kind \in DOMAIN errors
                        THEN /\ errors'[kind].count = errors[kind].count + 1
                             /\ errors'[kind].first_message = errors[kind].first_message
                        ELSE /\ errors'[kind].count = 1
                             /\ errors'[kind].first_message = msg
                ELSE errors' = errors ]_vars

\* inside the second operation, a second finding of a type has been counted
C6_Witness ==
    /\ pc = "compare"
    /\ op_idx = 1
    /\ i = 1
    /\ "Mismatch" \in DOMAIN errors
    /\ errors["Mismatch"].count = 2
    /\ errors["Mismatch"].first_message[2] = 0

\* C7 as stated: after the walk each deviating side has its own recorded
\* finding with that side's cursor value and window length.
C7_EachSideKeepsItsValues ==
    pc = "report" =>
        LET recorded == IF "LengthMismatch" \in DOMAIN errors
                        THEN {errors["LengthMismatch"].first_message} ELSE {}
        IN  /\ (q_idx # Len(query_seq)) <=>
                   (<<"Query sequence length mismatch", q_idx, Len(query_seq)>> \in recorded)
            /\ (t_idx # Len(target_seq)) <=>
                   (<<"Target sequence length mismatch", t_idx, Len(target_seq)>> \in recorded)

\* C7 amended: after the walk the LengthMismatch entry exists iff a side
\* deviates and counts the deviating sides; it carries the cursor value and
\* the window length of the query side when that side deviates, and of the
\* target side only when the query side does not.
C7_LengthMismatchCounted ==
    pc = "report" =>
        LET q_dev == q_idx # Len(query_seq)
            t_dev == t_idx # Len(target_seq)
            n     == (IF q_dev THEN 1 ELSE 0) + (IF t_dev THEN 1 ELSE 0)
        IN  /\ ("LengthMismatch" \in DOMAIN errors) <=> (n > 0)
            /\ n > 0 =>
                  /\ errors["LengthMismatch"].count = n
                  /\ errors["LengthMismatch"].first_message =
                        IF q_dev
                        THEN <<"Query sequence length mismatch", q_idx, Len(query_seq)>>
                        ELSE <<"Target sequence length mismatch", t_idx, Len(target_seq)>>

\* both sides deviate and one entry stands for the two of them
C7_Witness ==
    /\ pc = "report"
    /\ q_idx # Len(query_seq)
    /\ t_idx # Len(target_seq)
    /\ errors["LengthMismatch"].count = 2

\* C8: Insertion(n) moves the query cursor by n, Deletion(n) the target cursor
\* by n, and neither touches the other cursor or the errors nor can fail the
\* record; a record without disagreeing position whose operations add up to
\* the two window lengths ends with no finding.
C8_InsertionDeletionFrame ==
    /\ [][ (pc = "walk" /\ op_idx < Len(cigar_ops)) =>
              /\ CurrentOp.op = "Insertion" =>
                    /\ q_idx' = q_idx + CurrentOp.len
                    /\ t_idx' = t_idx
                    /\ errors' = errors
                    /\ op_idx' = op_idx + 1
                    /\ pc' = "walk"
              /\ CurrentOp.op = "Deletion" =>
                    /\ t_idx' = t_idx + CurrentOp.len
                    /\ q_idx' = q_idx
                    /\ errors' = errors
                    /\ op_idx' = op_idx + 1
                    /\ pc' = "walk" ]_vars
    /\ [](( /\ pc = "done"
            /\ WalkCompletes
            /\ Disagreements = {}
            /\ QueryTotal = Len(query_seq)
            /\ TargetTotal = Len(target_seq) )
          => (errors = EmptyErrors /\ result = Ok /\ output = <<>>))

\* an insertion absorbed the extra query base of a record without finding
C8_Witness ==
    /\ pc = "done"
    /\ result = Ok
    /\ errors = EmptyErrors
    /\ Len(query_seq) = Len(target_seq) + 1
    /\ \E k \in DOMAIN cigar_ops : cigar_ops[k] = [op |-> "Insertion", len |-> 1]
    /\ \E k \in DOMAIN cigar_ops : cigar_ops[k].op = "Match"

(***************************************************************************)
(* C11: the steps of validate_record run in the order query fetch, target  *)
(* fetch, CIGAR parse, walk, report; when a sequence name is unknown or    *)
(* the operator string is refused, the walk is never entered and the call  *)
(* ends, in every mode, with an error that is not a ValidationError, both  *)
(* cursors at 0, no finding recorded and nothing written.                  *)
(***************************************************************************)
\* the positions validate_record may move to from each position
StepsAfter(p) ==
    CASE p = "fetch_query"   -> {"fetch_target", "done"}
      [] p = "fetch_target"  -> {"normalize", "done"}
      [] p = "normalize"     -> {"parse"}
      [] p = "parse"         -> {"walk", "done"}
      [] p = "walk"          -> {"walk", "compare", "length_target", "done"}
      [] p = "compare"       -> {"compare", "walk"}
      [] p = "length_target" -> {"report"}
      [] p = "report"        -> {"done"}
      [] p = "done"          -> {}

WalkPositions == {"walk", "compare", "length_target", "report"}

HardFailure == ~NamesKnown \/ ~CigarAccepted

\* C11: the steps follow one another in the stated order, and an unknown name
\* or a refused operator string ends the call before the walk, in every mode,
\* with a plain error, cursors at 0, no finding and nothing written.
C11_FailuresAbortBeforeWalk ==
    /\ [][pc' \in StepsAfter(pc)]_vars
    /\ [][pc \notin WalkPositions /\ pc' \in WalkPositions => ~HardFailure]_vars
    /\ [](pc = "done" /\ HardFailure =>
            /\ result.kind = "Err"
            /\ ~IsValidationError(result)
            /\ q_idx = 0
            /\ t_idx = 0
            /\ op_idx = 0
            /\ errors = EmptyErrors
            /\ output = <<>>)

\* a report-mode call that ended on a refused operator string
C11_Witness ==
    /\ pc = "done"
    /\ IsReportMode(error_mode)
    /\ NamesKnown
    /\ ~CigarAccepted
    /\ result = Err("Failed to parse CIGAR string")

(***************************************************************************)
(* C13: a Match or Mismatch run reached with q_idx + n beyond the query    *)
(* window or t_idx + n beyond the target window ends the call at once, in  *)
(* every mode, with an out-of-range error that is not a ValidationError:   *)
(* no byte of the run is compared, no later operation is walked, no length *)
(* check is made and nothing is written.                                   *)
(***************************************************************************)
OutOfRangeMessages ==
    {"Query sequence index out of range", "Target sequence index out of range"}

\* the walk stands before a comparison run that leaves one of the windows
RunLeavesWindow ==
    /\ pc = "walk"
    /\ op_idx < Len(cigar_ops)
    /\ CurrentOp.op \in {"Match", "Mismatch"}
    /\ \/ q_idx + CurrentOp.len > Len(query_seq)
       \/ t_idx + CurrentOp.len > Len(target_seq)

\* C13: the step from a comparison run that leaves a window is the return of
\* an out-of-range error, with nothing compared, walked, checked or written.
C13_OutOfRangeRunFailsRecord ==
    /\ [][RunLeavesWindow =>
            /\ pc' = "done"
            /\ result'.kind = "Err"
            /\ ~IsValidationError(result')
            /\ result'.error \in OutOfRangeMessages
            /\ i' = 0
            /\ UNCHANGED <<errors, output, op_idx, q_idx, t_idx>>]_vars
    /\ [](pc = "done" /\ ~RunsInBounds =>
            /\ result.error \in OutOfRangeMessages
            /\ op_idx + 1 \in CompareRuns
            /\ \A k \in CompareRuns :
                   k <= op_idx => /\ QueryOffset(k) + cigar_ops[k].len <= Len(query_seq)
                                  /\ TargetOffset(k) + cigar_ops[k].len <= Len(target_seq)
            /\ "LengthMismatch" \notin DOMAIN errors
            /\ output = <<>>)

\* a report-mode call that had counted a finding before the run that failed it
C13_Witness ==
    /\ pc = "done"
    /\ IsReportMode(error_mode)
    /\ result = Err("Target sequence index out of range")
    /\ errors # EmptyErrors
    /\ output = <<>>

(***************************************************************************)
(* C14: when a call completes without a LengthMismatch finding, the run    *)
(* lengths of the Match, Mismatch and Insertion operations add up to       *)
(* query_end - query_start and those of the Match, Mismatch and Deletion   *)
(* operations to target_end - target_start.                                *)
(***************************************************************************)
\* the call went through both length checks
Completed == pc = "done" /\ (result = Ok \/ IsValidationError(result))

\* C14: without LengthMismatch the run lengths add up to the declared lengths
\* of the two windows.
C14_TotalsEqualDeclaredLengths ==
    Completed /\ "LengthMismatch" \notin DOMAIN errors =>
        /\ QueryTotal = record.query_end - record.query_start
        /\ TargetTotal = record.target_end - record.target_start

(***************************************************************************)
(* C15: both cursors start at 0 and never decrease, whatever the parsed    *)
(* operations are and up to the largest run length parse_cigar accepts;    *)
(* a Match or Mismatch run advances both cursors by exactly its length,    *)
(* findings or not.                                                        *)
(***************************************************************************)
C15_CursorsNeverDecrease ==
    /\ [](pc \in {"fetch_query", "fetch_target", "normalize", "parse"} =>
            q_idx = 0 /\ t_idx = 0)
    /\ [][/\ q_idx' >= q_idx
          /\ t_idx' >= t_idx
          /\ pc = "compare" /\ pc' = "walk" =>
                /\ q_idx' = q_idx + CurrentOp.len
                /\ t_idx' = t_idx + CurrentOp.len]_vars

(***************************************************************************)
(* C16: reverse_complement reverses the window and maps A<->T and C<->G    *)
(* whatever the case, every other base to N; applied twice it gives back   *)
(* the window upper-cased where the bases are A, C, G, T or N, and N in    *)
(* the place of every other base; validate_record applies it to the query  *)
(* window only, and exactly when the strand is '-'.                        *)
(***************************************************************************)
LowerToUpper ==
    {<<"a", "A">>, <<"c", "C">>, <<"g", "G">>, <<"t", "T">>, <<"n", "N">>, <<"r", "R">>}

\* the upper-case form of a base
UpperForm(b) ==
    IF \E p \in LowerToUpper : p[1] = b
    THEN (CHOOSE p \in LowerToUpper : p[1] = b)[2]
    ELSE b

UpperCased(w) == [k \in DOMAIN w |-> UpperForm(w[k])]

WatsonCrick == {<<"A", "T">>, <<"T", "A">>, <<"C", "G">>, <<"G", "C">>}

\* r is w reversed with A<->T, C<->G and N for every other base
IsReverseComplementOf(r, w) ==
    /\ Len(r) = Len(w)
    /\ \A k \in DOMAIN w :
          LET b == UpperForm(w[Len(w) + 1 - k])
          IN  IF b \in {"A", "C", "G", "T"} THEN <<b, r[k]>> \in WatsonCrick
              ELSE r[k] = "N"

\* r is w upper-cased with N in the place of every base other than A, C, G, T
IsUpperCasedWithN(r, w) ==
    /\ Len(r) = Len(w)
    /\ \A k \in DOMAIN w :
          LET b == UpperForm(w[k])
          IN  r[k] = IF b \in {"A", "C", "G", "T"} THEN b ELSE "N"

\* C16 as stated: two applications give back every window upper-cased,
\* ambiguity codes included.
C16_TwiceIsUpperCase ==
    rc_applied = 2 => rc_window = UpperCased(rc_original)

\* C16 with N in the place of the bases other than A, C, G, T
C16_ReverseComplement ==
    /\ rc_applied = 1 => IsReverseComplementOf(rc_window, rc_original)
    /\ rc_applied = 2 =>
          /\ IsUpperCasedWithN(rc_window, rc_original)
          /\ (Range(UpperCased(rc_original)) \subseteq {"A", "C", "G", "T", "N"}
                 => rc_window = UpperCased(rc_original))
    /\ pc = "parse" =>
          /\ target_seq = UpperCased(target_fasta.seq)
          /\ IF record.strand = "-"
             THEN IsReverseComplementOf(query_seq, query_fasta.seq)
             ELSE query_seq = UpperCased(query_fasta.seq)

\* a window with an ambiguity code after two applications
C16_Witness ==
    /\ rc_applied = 2
    /\ "R" \in Range(rc_original)
    /\ "c" \in Range(rc_original)
    /\ rc_window # UpperCased(rc_original)
    /\ pc = "parse"
    /\ record.strand = "-"

(***************************************************************************)
(* C12: validate_paf in report mode scans every record of the PAF file,    *)
(* and every finding of every record is shown to the user and counted in   *)
(* the final summary; a file with a record that has a finding does not end *)
(* with the "No errors found" outcome.                                     *)
(***************************************************************************)
LineQuery(line) == UpperCased(SubSeq(query_fasta.seq, line.query_start + 1, line.query_end))

LineTarget(line) == UpperCased(SubSeq(target_fasta.seq, line.target_start + 1, line.target_end))

\* the record of the line is walked to its end
LineWalks(line) ==
    /\ line.query_name = query_fasta.name
    /\ line.target_name = target_fasta.name
    /\ ~HasForeignLetter(line.cigar)
    /\ ~HasLetterWithoutCount(line.cigar)
    /\ ~HasCountAboveU64(line.cigar)
    /\ LET ops == DenotedOps(line.cigar)
       IN  \A k \in DOMAIN ops :
              ops[k].op \in {"Match", "Mismatch"} =>
                /\ RunTotal(ops, QueryConsuming, k) <= Len(LineQuery(line))
                /\ RunTotal(ops, TargetConsuming, k) <= Len(LineTarget(line))

\* the number of findings of the record of a line that is walked to its end
FindingCount(line) ==
    LET ops == DenotedOps(line.cigar)
        q   == LineQuery(line)
        t   == LineTarget(line)
        bad == {d \in UNION {{<<k, off>> : off \in 0..(ops[k].len - 1)} :
                              k \in {j \in DOMAIN ops : ops[j].op \in {"Match", "Mismatch"}}} :
                   (ops[d[1]].op = "Match") #
                   (q[RunTotal(ops, QueryConsuming, d[1] - 1) + d[2] + 1]
                      = t[RunTotal(ops, TargetConsuming, d[1] - 1) + d[2] + 1])}
    IN  Cardinality(bad)
        + (IF RunTotal(ops, QueryConsuming, Len(ops)) # Len(q) THEN 1 ELSE 0)
        + (IF RunTotal(ops, TargetConsuming, Len(ops)) # Len(t) THEN 1 ELSE 0)

RECURSIVE BatchFindings(_)
BatchFindings(lines) ==
    IF lines = <<>> THEN 0
    ELSE (IF LineWalks(Head(lines)) THEN FindingCount(Head(lines)) ELSE 0)
         + BatchFindings(Tail(lines))

\* a printed line that names line k of the PAF file
NamesLine(l, k) == Len(l) >= 2 /\ l[1] = "[pafcheck] Error at line" /\ l[2] = k

\* C12: a report-mode run over well-formed lines scans every line, counts and
\* shows every finding, and does not end with "No errors found" when a record
\* has a finding.
C12_ReportBatchCountsFindings ==
    /\ main_pc = "finished"
    /\ IsReportMode(error_mode)
    /\ \A k \in DOMAIN paf : paf[k].nfields >= 12
    => /\ line_number = Len(paf)
       /\ total_error_count >= BatchFindings(paf)
       /\ \A k \in DOMAIN paf :
              LineWalks(paf[k]) /\ FindingCount(paf[k]) > 0 =>
                 \E n \in DOMAIN stdout : NamesLine(stdout[n], k)
       /\ BatchFindings(paf) > 0 =>
              /\ paf_result # Ok
              /\ NoErrorsFound \notin Range(stdout)

====
